---- MODULE Spec2Model ----
(***************************************************************************)
(* Hybrid candidate retrieval: the on-disk artifacts (profile records,     *)
(* per-candidate vectors, fitted vectorizer, vector index + id list,       *)
(* keyword database), the scripts that write them, and CandidateRetriever, *)
(* which loads them and answers search(query, k, filters).                 *)
(*                                                                         *)
(* Scores are kept in tenths: 0.5 is 5, 0.2 is 2, a cosine of 0.9 is 9.    *)
(***************************************************************************)
EXTENDS Integers, Sequences, FiniteSets, TLC

\* ---------------------------------------------------------------- bounds
MaxClock == 6    \* ingestion issues candidate ids (timestamps) up to MaxClock
MaxK == 2        \* search is called with k in 1..MaxK
MaxStale == 1    \* profile files removed behind the indexes' back
MaxRuns == 2     \* ingestion runs followed when the clock's readings are inputs
MaxSecond == 2   \* the seconds of the wall clock vacancies are created in
MaxFiles == 3    \* profile files the dashboard scans
MaxRejections == 2   \* rejections recorded

\* ------------------------------------------------------ program constants
KeywordBase == 5     \* profile['search_score'] = 0.5
KeywordBonus == 2    \* profile['search_score'] + 0.2
MaxFeatures == 384   \* TfidfVectorizer(max_features=384, ...)

\* ---------------------------------------------------------- Python values
PyInt(n) == [t |-> "int", v |-> n]
PyStr(s) == [t |-> "str", v |-> s]
PyNone == [t |-> "none"]

\* An optional file or object: <<>> is absent (None), <<x>> holds x.
Absent == <<>>
Some(x) == <<x>>
IsSome(o) == Len(o) > 0
Val(o) == o[1]

Min(a, b) == IF a <= b THEN a ELSE b
Max(a, b) == IF a >= b THEN a ELSE b

\* dict.get(key, default)
Get(d, key, default) == IF key \in DOMAIN d THEN d[key] ELSE default

\* str.lower(), on strings kept as sequences of characters
LowerChar(c) ==
    CASE c = "N" -> "n"
      [] c = "Y" -> "y"
      [] c = "L" -> "l"
      [] c = "A" -> "a"
      [] OTHER -> c
Lower(s) == [i \in 1..Len(s) |-> LowerChar(s[i])]

\* a in b, for strings
IsSubstring(a, b) ==
    \E i \in 0..(Len(b) - Len(a)) : \A j \in 1..Len(a) : b[i + j] = a[j]

\* ------------------------------------------------------------ the corpus
\* Query texts.  "" is the empty string; "c++" and "\"python" (python
\* after an unbalanced quote) are texts the FTS5 query grammar rejects.
Queries == {"", "python", "python aws", "c++", "\"python"}
NonEmptyQueries == Queries \ {""}

\* The tokens the keyword engine sees in a query, and whether the text
\* is a well-formed MATCH expression.
QueryTokens(q) ==
    CASE q = "python" -> {"python"}
      [] q = "python aws" -> {"python", "aws"}
      [] OTHER -> {}
WellFormedMatch(q) == q \in {"python", "python aws"}

\* What the parser extracts from one resume, and the cosine (in tenths)
\* of that resume's vector with each query's vector.
Cosines(python, pythonAws, other) ==
    [q \in NonEmptyQueries |->
        CASE q \in {"python", "\"python"} -> python
          [] q = "python aws" -> pythonAws
          [] OTHER -> other]

Alice == [name |-> "Alice", role_category |-> "Engineer", experience_years |-> 5,
          location |-> PyStr(<<"N", "Y">>), work_authorization |-> PyStr("H1B"),
          skills |-> {"python", "aws"}, cosine |-> Cosines(0, 3, 4)]
Bob == [name |-> "Bob", role_category |-> "Engineer", experience_years |-> 2,
        location |-> PyNone, work_authorization |-> PyNone,
        skills |-> {"java"}, cosine |-> Cosines(2, 9, 4)]
Carol == [name |-> "Carol", role_category |-> "QA", experience_years |-> 8,
          location |-> PyStr(<<"L", "A">>), work_authorization |-> PyStr("US Citizen"),
          skills |-> {"python"}, cosine |-> Cosines(8, 6, 0)]
Dave == [name |-> "Dave", role_category |-> "QA", experience_years |-> 0,
         location |-> PyStr(<<"A", "l", "b", "a", "n", "y">>), work_authorization |-> PyNone,
         skills |-> {"java"}, cosine |-> Cosines(1, 0, 4)]
Eve == [name |-> "Eve", role_category |-> "Engineer", experience_years |-> 3,
        location |-> PyStr(<<"L", "A">>), work_authorization |-> PyStr("H1B"),
        skills |-> {"aws"}, cosine |-> Cosines(1, 0, 0)]

\* The resumes under data/resumes, in the order a run walks them.
ResumeDir == <<Alice, Bob, Carol>>

\* ------------------------------------------------------------------ state
VARIABLES
    profiles,     \* data/parsed/<id>.json : id -> profile record, for the files that exist
    npy,          \* data/parsed/<id>.npy  : id -> vector, for the files that exist
    vectorizerPkl,\* data/parsed/vectorizer.pkl : 0 when absent, else the number of the fit
    faissFile,    \* data/index/faiss.index : Absent or Some(sequence of rows)
    metaFile,     \* data/index/meta.json   : Absent or Some(candidate_ids)
    db,           \* data/index/meta.sqlite : Absent or Some([columns, rows])
    fits,         \* the fits made so far: fits[n] is the number of features of fit n
    faissBuild,   \* the run of build_faiss.py: where it stands, its candidate_ids,
                  \* the ingestion run it read, whether it repeats a build of that run
    ftsBuild,     \* the run of build_text_index: where it stands, likewise
    clock,        \* the next timestamp a parse will draw
    stale,        \* how many profile files have been removed
    retriever,    \* the CandidateRetriever object: Absent or Some([faiss_index, candidate_ids, vectorizer])
    last,         \* the last call of search: its arguments and its outcome
    vacancies,    \* VacancyManager.vacancies : vacancy_id -> vacancy
    vacancyFiles, \* data/vacancies/<vacancy_id>.json : vacancy_id -> vacancy
    second,       \* the wall clock's last reading, in seconds
    parsedFiles,  \* data/parsed/*.json as the dashboard reads them: content -> number of files
    metrics,      \* KPIDashboard.metrics
    metricsFile,  \* data/metrics/kpi_metrics.json : Absent or Some(metrics as JSON)
    kpiLast       \* the last call on the dashboard and its outcome

retrieval == <<profiles, npy, vectorizerPkl, faissFile, metaFile, db, fits, faissBuild, ftsBuild,
               clock, stale, retriever, last>>

vacancyVars == <<vacancies, vacancyFiles, second>>

kpiVars == <<parsedFiles, metrics, metricsFile, kpiLast>>

vars == <<retrieval, vacancyVars, kpiVars>>

disk == <<profiles, npy, vectorizerPkl, faissFile, metaFile, db, fits, faissBuild, ftsBuild,
          clock, stale>>

\* ------------------------------------------------------------- ingestion
\* parse_resume: the profile record of one resume, with the id drawn
\* from the clock.
ParseResume(r, id) ==
    [candidate_id |-> id,
     name |-> PyStr(r.name),
     role_category |-> PyStr(r.role_category),
     skills |-> r.skills,
     experience_years |-> PyInt(r.experience_years),
     location |-> r.location,
     work_authorization |-> r.work_authorization]

\* The vector written to <id>.npy: the fit that produced it and its
\* cosine with each query.
Embedding(r, fit) == [fit |-> fit, cosine |-> r.cosine]

\* The number of features a fit can end with: the size of the
\* vocabulary of the texts, at most max_features.
FeatureCounts == {MaxFeatures - 1, MaxFeatures}

\* scan_and_parse: parse every resume found, fit the vectorizer on
\* them, then write each profile and its vector.  features is the
\* number of features the texts give the fit.
ScanAndParse(features) ==
    /\ clock + Len(ResumeDir) - 1 <= MaxClock
    /\ LET ids == clock..(clock + Len(ResumeDir) - 1)
           fit == vectorizerPkl + 1
       IN /\ vectorizerPkl' = fit
          /\ fits' = Append(fits, features)
          /\ profiles' = [id \in DOMAIN profiles \cup ids |->
                            IF id \in ids THEN ParseResume(ResumeDir[id - clock + 1], id)
                            ELSE profiles[id]]
          /\ npy' = [id \in DOMAIN npy \cup ids |->
                       IF id \in ids THEN Embedding(ResumeDir[id - clock + 1], fit)
                       ELSE npy[id]]
    /\ clock' = clock + Len(ResumeDir)
    /\ UNCHANGED <<faissFile, metaFile, db, faissBuild, ftsBuild, stale, retriever, last>>

\* The candidates whose profile file gets deleted.
Removable == {1, 3}

\* A profile file is deleted while the indexes still name it.
RemoveProfile(id) ==
    /\ id \in DOMAIN profiles
    /\ id \in Removable
    /\ stale < MaxStale
    /\ profiles' = [i \in DOMAIN profiles \ {id} |-> profiles[i]]
    /\ stale' = stale + 1
    /\ UNCHANGED <<npy, vectorizerPkl, faissFile, metaFile, db, fits, faissBuild, ftsBuild,
                   clock, retriever, last>>

RECURSIVE SortedIdsAfterFirst(_)
SortedIdsAfterFirst(S) ==
    IF S = {} THEN <<>>
    ELSE LET m == CHOOSE x \in S : \A y \in S : x <= y
             rest == S \ {m}
         IN IF rest = {} THEN <<>>
            ELSE <<CHOOSE x \in rest : \A y \in rest : x <= y>>
                 \o SortedIdsAfterFirst(rest)

RECURSIVE SortedIdsDescending(_)
SortedIdsDescending(S) ==
    IF S = {} THEN <<>>
    ELSE LET m == CHOOSE x \in S : \A y \in S : x >= y
         IN <<m>> \o SortedIdsDescending(S \ {m})

\* A set of ids in the order sorted(glob) lists their files.
RECURSIVE SortedIds(_)
SortedIds(S) ==
    IF S = {} THEN <<>>
    ELSE LET m == CHOOSE x \in S : \A y \in S : x <= y
         IN <<m>> \o SortedIds(S \ {m})

\* ------------------------------------------------------- build_faiss.py
\* The length of a stored vector: the feature count of its fit.
Dimension(vector) == fits[vector.fit]

VstackPadding(embeddings) == TRUE

\* np.vstack(embeddings) takes vectors of one length only.
Vstackable(embeddings) ==
    \A i, j \in 1..Len(embeddings) : Dimension(embeddings[i]) = Dimension(embeddings[j])

LoadEmbeddingsReversed(candidate_ids) ==
    [i \in 1..Len(candidate_ids) |-> npy[candidate_ids[Len(candidate_ids) + 1 - i]]]

\* The loop over sorted(glob("*.npy")): embeddings[i] is the vector of
\* candidate_ids[i].
LoadEmbeddings(candidate_ids) == [i \in 1..Len(candidate_ids) |-> npy[candidate_ids[i]]]

\* The script up to faiss.write_index: it reads every vector, stacks
\* them (ValueError when their lengths differ) and writes faiss.index.
WriteIndex ==
    /\ faissBuild.pc # "index written"
    /\ DOMAIN npy # {}
    /\ LET candidate_ids == SortedIds(DOMAIN npy)
           embeddings == LoadEmbeddings(candidate_ids)
       IN IF Vstackable(embeddings)
          THEN /\ faissFile' = Some(embeddings)
               /\ faissBuild' = [pc |-> "index written", candidate_ids |-> candidate_ids,
                                 run |-> vectorizerPkl,
                                 repeat |-> faissBuild.pc = "done"
                                            /\ faissBuild.run = vectorizerPkl]
          ELSE /\ faissFile' = faissFile
               /\ faissBuild' = [pc |-> "ValueError", candidate_ids |-> <<>>,
                                 run |-> faissBuild.run, repeat |-> FALSE]
    /\ UNCHANGED <<profiles, npy, vectorizerPkl, metaFile, db, fits, ftsBuild, clock, stale,
                   retriever, last>>

\* The rest of the script: json.dump of candidate_ids to meta.json.
WriteMeta ==
    /\ faissBuild.pc = "index written"
    /\ metaFile' = Some(faissBuild.candidate_ids)
    /\ faissBuild' = [faissBuild EXCEPT !.pc = "done", !.candidate_ids = <<>>]
    /\ UNCHANGED <<profiles, npy, vectorizerPkl, faissFile, db, fits, ftsBuild, clock, stale,
                   retriever, last>>

BuildFaiss == WriteIndex \/ WriteMeta

\* --------------------------------------------------------- build_fts.py
\* The columns of the table build_text_index creates.
BuiltColumns ==
    {"candidate_id", "name", "role_category", "skills", "resume_snippet", "email", "phone"}

\* The token the table's tokenizer makes of a location text.
LocationWord(text) ==
    CASE text = <<"N", "Y">> -> "ny"
      [] text = <<"L", "A">> -> "la"
      [] OTHER -> "albany"

\* The tokens of one profile that a column of the table holds.
ColumnTokens(p, col) ==
    CASE col = "skills" -> Get(p, "skills", {})
      [] col = "location" ->
            IF Get(p, "location", PyNone).t = "str" THEN {LocationWord(p.location.v)} ELSE {}
      [] col = "work_authorization" ->
            IF Get(p, "work_authorization", PyNone).t = "str"
            THEN {p.work_authorization.v} ELSE {}
      [] OTHER -> {}

FtsRow(p, columns) ==
    [candidate_id |-> p.candidate_id,
     tokens |-> UNION {ColumnTokens(p, c) : c \in columns}]

\* A database file that holds no profiles_fts table.
NoTable == [columns |-> {}, rows |-> <<>>]
HasTable(database) == database.columns # {}

\* sqlite3.connect creates the file; DROP TABLE IF EXISTS runs outside
\* any transaction and is on disk when it returns.
DropTable ==
    /\ ftsBuild.pc \in {"idle", "done"}
    /\ db' = Some(NoTable)
    /\ ftsBuild' = [pc |-> "dropped", run |-> ftsBuild.run,
                    repeat |-> ftsBuild.pc = "done" /\ ftsBuild.run = vectorizerPkl]
    /\ UNCHANGED <<profiles, npy, vectorizerPkl, faissFile, metaFile, fits, faissBuild, clock,
                   stale, retriever, last>>

\* CREATE VIRTUAL TABLE, on disk when it returns: an empty table.
CreateTable ==
    /\ ftsBuild.pc = "dropped"
    /\ db' = Some([columns |-> BuiltColumns, rows |-> <<>>])
    /\ ftsBuild' = [ftsBuild EXCEPT !.pc = "created"]
    /\ UNCHANGED <<profiles, npy, vectorizerPkl, faissFile, metaFile, fits, faissBuild, clock,
                   stale, retriever, last>>

\* The loop over sorted(glob("*.json")) and conn.commit(): the rows of
\* every profile file appear together.  With no file the function
\* returns and the table stays empty.
InsertProfiles ==
    /\ ftsBuild.pc = "created"
    /\ LET ids == SortedIds(DOMAIN profiles)
       IN db' = Some([columns |-> BuiltColumns,
                      rows |-> [i \in 1..Len(ids) |-> FtsRow(profiles[ids[i]], BuiltColumns)]])
    /\ ftsBuild' = [pc |-> "done", run |-> vectorizerPkl,
                    repeat |-> ftsBuild.repeat /\ ftsBuild.run = vectorizerPkl]
    /\ UNCHANGED <<profiles, npy, vectorizerPkl, faissFile, metaFile, fits, faissBuild, clock,
                   stale, retriever, last>>

BuildTextIndex == DropTable \/ CreateTable \/ InsertProfiles

\* --------------------------------------------------- CandidateRetriever
\* load_indexes: what the constructor reads from disk.
LoadIndexes ==
    LET both == IsSome(faissFile) /\ IsSome(metaFile)
    IN [faiss_index |-> IF both THEN faissFile ELSE Absent,
        candidate_ids |-> IF both THEN Val(metaFile) ELSE <<>>,
        vectorizer |-> vectorizerPkl]

\* get_retriever(): a serving process constructs its retriever.
NewRetriever ==
    /\ retriever' = Some(LoadIndexes)
    /\ UNCHANGED <<disk, last>>

\* load_profile: the record of <id>.json, or None.
LoadProfile(id) == IF id \in DOMAIN profiles THEN Some(profiles[id]) ELSE Absent

\* The inner product of a stored row with the query's vector.  The empty
\* text has no term of the vocabulary: its vector is zero.
Cosine(row, q) == IF q \in DOMAIN row.cosine THEN row.cosine[q] ELSE 0

\* IndexFlatIP.search: the positions (from 0) of the n rows with the
\* largest inner product, largest first, earlier row first among equals.
RECURSIVE TopRows(_, _, _, _)
TopRows(rows, q, n, taken) ==
    LET left == (1..Len(rows)) \ taken
    IN IF n = 0 \/ left = {} THEN <<>>
       ELSE LET best == CHOOSE i \in left :
                           \A j \in left :
                              \/ Cosine(rows[i], q) > Cosine(rows[j], q)
                              \/ Cosine(rows[i], q) = Cosine(rows[j], q) /\ i <= j
            IN <<[idx |-> best - 1, dist |-> Cosine(rows[best], q)]>>
               \o TopRows(rows, q, n - 1, taken \cup {best})

RECURSIVE HydrateUntilMissing(_, _)
HydrateUntilMissing(hits, ids) ==
    IF hits = <<>> THEN <<>>
    ELSE LET h == Head(hits)
         IN IF h.idx < Len(ids) /\ IsSome(LoadProfile(ids[h.idx + 1]))
            THEN <<[profile |-> Val(LoadProfile(ids[h.idx + 1])), search_score |-> h.dist]>>
                 \o HydrateUntilMissing(Tail(hits), ids)
            ELSE <<>>

\* The loop over (dist, idx): hits whose profile loads, each with its score.
RECURSIVE Hydrate(_, _)
Hydrate(hits, ids) ==
    IF hits = <<>> THEN <<>>
    ELSE LET h == Head(hits)
             rest == Hydrate(Tail(hits), ids)
         IN IF h.idx < Len(ids)
            THEN LET profile == LoadProfile(ids[h.idx + 1])
                 IN IF IsSome(profile)
                    THEN <<[profile |-> Val(profile), search_score |-> h.dist]>> \o rest
                    ELSE rest
            ELSE rest

\* faiss_index.search(query_vec, ...) asserts that the query vector has
\* the index's dimension: the loaded vectorizer's feature count against
\* the length of the vectors the index was built from.
SameDimension(r) == fits[r.vectorizer] = Dimension(Val(r.faiss_index)[1])

\* semantic_search(query, k)
SemanticSearch(r, q, k) ==
    IF ~IsSome(r.faiss_index) \/ r.vectorizer = 0
    THEN [results |-> <<>>, hits |-> <<>>, err |-> "none", touched |-> {}]
    ELSE IF ~SameDimension(r)
    THEN [results |-> <<>>, hits |-> <<>>, err |-> "AssertionError",
          touched |-> {"vectorizer", "faiss.index"}]
    ELSE LET hits == TopRows(Val(r.faiss_index), q, Min(k, Len(r.candidate_ids)), {})
         IN [results |-> Hydrate(hits, r.candidate_ids),
             hits |-> [i \in 1..Len(hits) |->
                         IF hits[i].idx < Len(r.candidate_ids)
                         THEN r.candidate_ids[hits[i].idx + 1] ELSE 0],
             err |-> "none",
             touched |-> {"vectorizer", "faiss.index"}
                         \cup (IF hits = <<>> THEN {} ELSE {"profiles"})]

\* The columns keyword_search selects from profiles_fts.
SelectedColumns ==
    {"candidate_id", "name", "role_category", "skills", "location",
     "work_authorization", "experience_years"}

\* The rows a MATCH returns: every token of the query occurs in the row,
\* in rowid order, cut by LIMIT.
MatchingRows(rows, q, k) ==
    LET hit == SelectSeq(rows, LAMBDA row : QueryTokens(q) \subseteq row.tokens)
    IN SubSeq(hit, 1, Min(k, Len(hit)))

RECURSIVE HydrateRowsScoredByRank(_)
HydrateRowsScoredByRank(rows) ==
    IF rows = <<>> THEN <<>>
    ELSE LET profile == LoadProfile(Head(rows).candidate_id)
             rest == HydrateRowsScoredByRank(Tail(rows))
         IN IF IsSome(profile)
            THEN <<[profile |-> Val(profile), search_score |-> KeywordBase + Len(rest)]>> \o rest
            ELSE rest

\* The loop over cursor.fetchall(): rows whose profile loads, each with
\* the fixed score.
RECURSIVE HydrateRows(_)
HydrateRows(rows) ==
    IF rows = <<>> THEN <<>>
    ELSE LET profile == LoadProfile(Head(rows).candidate_id)
             rest == HydrateRows(Tail(rows))
         IN IF IsSome(profile)
            THEN <<[profile |-> Val(profile), search_score |-> KeywordBase]>> \o rest
            ELSE rest

\* keyword_search(query, k)
KeywordSearch(q, k) ==
    IF ~IsSome(db)
    THEN [results |-> <<>>, hits |-> <<>>, err |-> "none", touched |-> {}]
    ELSE IF ~HasTable(Val(db))
    THEN [results |-> <<>>, hits |-> <<>>, err |-> "OperationalError: no such table",
          touched |-> {"meta.sqlite"}]
    ELSE IF ~(SelectedColumns \subseteq Val(db).columns)
    THEN [results |-> <<>>, hits |-> <<>>, err |-> "OperationalError: no such column",
          touched |-> {"meta.sqlite"}]
    ELSE IF ~WellFormedMatch(q)
    THEN [results |-> <<>>, hits |-> <<>>, err |-> "OperationalError: fts5 syntax error",
          touched |-> {"meta.sqlite"}]
    ELSE LET rows == MatchingRows(Val(db).rows, q, k)
         IN [results |-> HydrateRows(rows),
             hits |-> [i \in 1..Len(rows) |-> rows[i].candidate_id],
             err |-> "none",
             touched |-> {"meta.sqlite"} \cup (IF rows = <<>> THEN {} ELSE {"profiles"})]

\* ------------------------------------------------------------ score fusion
Cid(entry) == entry.profile.candidate_id

HasKey(combined, cid) == \E i \in 1..Len(combined) : Cid(combined[i]) = cid

\* combined[cid] = entry, on a dict kept in insertion order
DictPut(combined, entry) ==
    IF HasKey(combined, Cid(entry))
    THEN [i \in 1..Len(combined) |->
            IF Cid(combined[i]) = Cid(entry) THEN entry ELSE combined[i]]
    ELSE Append(combined, entry)

RECURSIVE SeedCombined(_, _)
SeedCombined(combined, semantic) ==
    IF semantic = <<>> THEN combined
    ELSE SeedCombined(DictPut(combined, Head(semantic)), Tail(semantic))

BothScoreAdditive(vectorScore, keywordScore) == vectorScore + KeywordBonus

\* The score a candidate found by both searches ends with.
BothScore(vectorScore, keywordScore) == Max(vectorScore, keywordScore + KeywordBonus)

\* One keyword result merged into combined.
MergeKeyword(combined, entry) ==
    IF HasKey(combined, Cid(entry))
    THEN [i \in 1..Len(combined) |->
            IF Cid(combined[i]) = Cid(entry)
            THEN [combined[i] EXCEPT
                    !.search_score = BothScore(combined[i].search_score, entry.search_score)]
            ELSE combined[i]]
    ELSE Append(combined, entry)

RECURSIVE MergeKeywords(_, _)
MergeKeywords(combined, keyword) ==
    IF keyword = <<>> THEN combined
    ELSE MergeKeywords(MergeKeyword(combined, Head(keyword)), Tail(keyword))

Fuse(semantic, keyword) == MergeKeywords(SeedCombined(<<>>, semantic), keyword)

InsertBeforeEquals(sorted, e) ==
    LET ahead == SelectSeq(sorted, LAMBDA x : x.search_score > e.search_score)
        behind == SelectSeq(sorted, LAMBDA x : x.search_score <= e.search_score)
    IN ahead \o <<e>> \o behind

\* Where a sort that keeps equal keys in order puts e in a list already
\* sorted largest first: after every element with a score >= its own.
InsertSorted(sorted, e) ==
    LET ahead == SelectSeq(sorted, LAMBDA x : x.search_score >= e.search_score)
        behind == SelectSeq(sorted, LAMBDA x : x.search_score < e.search_score)
    IN ahead \o <<e>> \o behind

RECURSIVE SortAscending(_, _)
SortAscending(sorted, todo) ==
    IF todo = <<>> THEN sorted
    ELSE LET e == Head(todo)
             ahead == SelectSeq(sorted, LAMBDA x : x.search_score <= e.search_score)
             behind == SelectSeq(sorted, LAMBDA x : x.search_score > e.search_score)
         IN SortAscending(ahead \o <<e>> \o behind, Tail(todo))

\* results.sort(key=search_score, reverse=True)
RECURSIVE SortByScore(_, _)
SortByScore(sorted, todo) ==
    IF todo = <<>> THEN sorted
    ELSE SortByScore(InsertSorted(sorted, Head(todo)), Tail(todo))

\* ------------------------------------------------------------- filtering
\* a < b between Python values: defined between two ints, a TypeError
\* between an int and a str or None.
Comparable(a, b) == a.t = "int" /\ b.t = "int"

\* (profile.get('location') or '')
LocationOrEmpty(p) ==
    LET loc == Get(p, "location", PyNone)
    IN IF loc.t = "str" THEN loc.v ELSE <<>>

\* The checks of matches_filters, in the order written; the first
\* failing one returns.  A key none of them names is never looked at.
FilterChecks(p, f) ==
    IF "role_category" \in DOMAIN f
       /\ Get(p, "role_category", PyNone) # f["role_category"]
    THEN "False"
    ELSE IF "min_experience" \in DOMAIN f
            /\ ~Comparable(Get(p, "experience_years", PyInt(0)), f["min_experience"])
    THEN "TypeError"
    ELSE IF "min_experience" \in DOMAIN f
            /\ Get(p, "experience_years", PyInt(0)).v < f["min_experience"].v
    THEN "False"
    ELSE IF "max_experience" \in DOMAIN f
            /\ ~Comparable(Get(p, "experience_years", PyInt(0)), f["max_experience"])
    THEN "TypeError"
    ELSE IF "max_experience" \in DOMAIN f
            /\ Get(p, "experience_years", PyInt(0)).v > f["max_experience"].v
    THEN "False"
    ELSE IF "location" \in DOMAIN f /\ f["location"].t # "str"
    THEN "AttributeError"
    ELSE IF "location" \in DOMAIN f
            /\ ~IsSubstring(Lower(f["location"].v), Lower(LocationOrEmpty(p)))
    THEN "False"
    ELSE IF "work_authorization" \in DOMAIN f
            /\ Get(p, "work_authorization", PyNone) # f["work_authorization"]
    THEN "False"
    ELSE "True"

KnownFilterKeys ==
    {"role_category", "min_experience", "max_experience", "location", "work_authorization"}

MatchesFiltersRejectingUnknownKeys(p, f) ==
    IF DOMAIN f \subseteq KnownFilterKeys THEN FilterChecks(p, f) ELSE "False"

\* matches_filters(profile, filters): "True", "False", or the exception
\* the comparison raises.
MatchesFilters(p, f) == FilterChecks(p, f)

\* `if filters:` - None and the empty mapping both skip filtering.
FiltersGiven(f) == f # PyNone /\ DOMAIN f # {}

FilterResultsDroppingFirst(kept, todo, f) ==
    LET matching == SelectSeq(todo, LAMBDA e : FilterChecks(e.profile, f) = "True")
    IN [results |-> IF matching = <<>> THEN <<>> ELSE Tail(matching), err |-> "none"]

FilterResultsNotAssigned(kept, todo, f) == [results |-> kept \o todo, err |-> "none"]

\* The filtering loop: the profiles that match, or the first exception.
RECURSIVE FilterResults(_, _, _)
FilterResults(kept, todo, f) ==
    IF todo = <<>> THEN [results |-> kept, err |-> "none"]
    ELSE LET m == MatchesFilters(Head(todo).profile, f)
         IN IF m = "True" THEN FilterResults(Append(kept, Head(todo)), Tail(todo), f)
            ELSE IF m = "False" THEN FilterResults(kept, Tail(todo), f)
            ELSE [results |-> <<>>, err |-> m]

\* results[:k]
FirstK(results, k) == SubSeq(results, 1, Min(k, Len(results)))

\* ------------------------------------------------------------------ search
\* search(query, k, filters) on retriever r: what it returns or raises,
\* with the intermediate lists and the artifacts it queried on the way.
NothingDone ==
    [semantic |-> <<>>, keyword |-> <<>>, semanticHits |-> <<>>, keywordHits |-> <<>>,
     combined |-> <<>>, ranked |-> <<>>, filtered |-> <<>>]

EmptyQueryNeverChecked(q) == FALSE

\* `if not query`
EmptyQuery(q) == q = ""

SearchOutcome(r, q, k, f) ==
    IF EmptyQuery(q)
    THEN [result |-> <<>>, err |-> "none", touched |-> {}] @@ NothingDone
    ELSE
    LET sem == SemanticSearch(r, q, k * 2)
        kw == KeywordSearch(q, k)
        combined == Fuse(sem.results, kw.results)
        ranked == SortByScore(<<>>, combined)
        filtered == IF FiltersGiven(f) THEN FilterResults(<<>>, ranked, f)
                    ELSE [results |-> ranked, err |-> "none"]
    IN IF sem.err # "none"
       THEN [result |-> <<>>, err |-> sem.err, touched |-> sem.touched] @@ NothingDone
       ELSE IF kw.err # "none"
       THEN [result |-> <<>>, err |-> kw.err, touched |-> sem.touched \cup kw.touched,
             semantic |-> sem.results, semanticHits |-> sem.hits] @@ NothingDone
       ELSE [result |-> FirstK(filtered.results, k), err |-> filtered.err,
             touched |-> sem.touched \cup kw.touched,
             semantic |-> sem.results, keyword |-> kw.results,
             semanticHits |-> sem.hits, keywordHits |-> kw.hits,
             combined |-> combined, ranked |-> ranked, filtered |-> filtered.results]

\* The filter mappings callers pass.
FilterMaps ==
    {PyNone,
     [role_category |-> PyStr("QA")],
     [min_experience |-> PyInt(3), max_experience |-> PyInt(5)],
     [min_experience |-> PyInt(10)],
     [location |-> PyStr(<<"n", "y">>)],
     [work_authorization |-> PyStr("H1B")],
     [team |-> PyStr("platform")],
     [team |-> PyStr("platform"), location |-> PyStr(<<"n", "y">>)],
     [max_experience |-> PyInt(2)],
     [min_experience |-> PyStr("five")],
     [role_category |-> PyStr("Manager"), max_experience |-> PyStr("ten")]}

SearchStoringScores(q, k, f) ==
    /\ IsSome(retriever)
    /\ last.op = "none"
    /\ LET out == SearchOutcome(Val(retriever), q, k, f)
       IN /\ last' = [op |-> "search", query |-> q, k |-> k, filters |-> f,
                      files |-> DOMAIN profiles, out |-> out]
          /\ profiles' = [id \in DOMAIN profiles |->
                            IF \E i \in 1..Len(out.result) : out.result[i].profile.candidate_id = id
                            THEN [profiles[id] EXCEPT !.name = PyNone]
                            ELSE profiles[id]]
    /\ UNCHANGED <<npy, vectorizerPkl, faissFile, metaFile, db, fits, faissBuild, ftsBuild,
                   clock, stale, retriever>>

\* The serving process calls search once it has taken the previous result.
Search(q, k, f) ==
    /\ IsSome(retriever)
    /\ last.op = "none"
    /\ last' = [op |-> "search", query |-> q, k |-> k, filters |-> f,
                files |-> DOMAIN profiles,
                out |-> SearchOutcome(Val(retriever), q, k, f)]
    /\ UNCHANGED <<disk, retriever>>

\* The caller takes what search returned (or catches what it raised).
TakeResult ==
    /\ last.op = "search"
    /\ last' = [op |-> "none"]
    /\ UNCHANGED <<disk, retriever>>

\* ------------------------------------------------------------ the system
\* The table of a keyword database written by a builder that stores
\* every column keyword_search selects.
ServedColumns == SelectedColumns \cup {"resume_snippet"}

\* A record written before experience_years and location were extracted.
EarlyBob ==
    [candidate_id |-> 2, name |-> PyStr("Bob"), role_category |-> PyStr("Engineer"),
     skills |-> {"java"}, work_authorization |-> PyNone]

\* The corpus of a data directory that is already in service.
SeededResumes == <<Alice, Bob, Carol, Dave, Eve>>

SeededProfiles ==
    [id \in 1..Len(SeededResumes) |->
        IF id = 2 THEN EarlyBob ELSE ParseResume(SeededResumes[id], id)]

\* ------------------------------------------------- vacancy_management.py
\* The role folders vacancies are created for.
Roles == {"QA", "Data Engineer", "Data_Engineer"}

\* role_name.replace(' ', '_')
Underscored(role_name) == IF role_name = "Data Engineer" THEN "Data_Engineer" ELSE role_name

\* f"VAC_{role_name.replace(' ', '_')}_{timestamp}", the timestamp being
\* datetime.now() to the second.
VacancyId(role_name, timestamp) == <<"VAC", Underscored(role_name), timestamp>>

ValidStatuses == {"Open", "On Hold", "Closed", "Filled"}

\* The statuses callers pass: the valid ones and one that is not.
Statuses == ValidStatuses \cup {"Reopened"}

\* The vacancy ids callers pass: the stored ones and one that is not.
UnknownVacancy == <<"VAC", "QA", 0>>

Candidates == {1}

\* self.vacancies[vacancy['vacancy_id']] = vacancy, after the dump to
\* <vacancy_id>.json
SaveVacancy(vacancy) ==
    /\ vacancyFiles' = [id \in DOMAIN vacancyFiles \cup {vacancy.vacancy_id} |->
                          IF id = vacancy.vacancy_id THEN vacancy ELSE vacancyFiles[id]]
    /\ vacancies' = [id \in DOMAIN vacancies \cup {vacancy.vacancy_id} |->
                       IF id = vacancy.vacancy_id THEN vacancy ELSE vacancies[id]]

\* An open vacancy of the role is stored.
HasOpenVacancy(role_name) ==
    \E id \in DOMAIN vacancies :
        vacancies[id].role_name = role_name /\ vacancies[id].status = "Open"

\* create_vacancy_from_role: the open vacancy of the role if there is
\* one, else a new vacancy under the id made of role and clock reading.
CreateVacancyFromRole(role_name, now) ==
    IF HasOpenVacancy(role_name)
    THEN UNCHANGED <<vacancies, vacancyFiles, second>>
    ELSE /\ now >= second
         /\ second' = now
         /\ SaveVacancy([vacancy_id |-> VacancyId(role_name, now),
                         role_name |-> role_name,
                         status |-> "Open",
                         assigned_candidates |-> <<>>])

\* assign_candidate_to_vacancy
AssignCandidateToVacancy(vacancy_id, candidate_id) ==
    IF vacancy_id \notin DOMAIN vacancies
    THEN UNCHANGED <<vacancies, vacancyFiles, second>>
    ELSE LET vacancy == vacancies[vacancy_id]
         IN IF \A i \in 1..Len(vacancy.assigned_candidates) :
                  vacancy.assigned_candidates[i] # candidate_id
            THEN /\ SaveVacancy([vacancy EXCEPT
                                   !.assigned_candidates = Append(@, candidate_id)])
                 /\ UNCHANGED second
            ELSE UNCHANGED <<vacancies, vacancyFiles, second>>

\* update_vacancy_status
UpdateVacancyStatus(vacancy_id, status) ==
    IF status \notin ValidStatuses \/ vacancy_id \notin DOMAIN vacancies
    THEN UNCHANGED <<vacancies, vacancyFiles, second>>
    ELSE /\ SaveVacancy([vacancies[vacancy_id] EXCEPT !.status = status])
         /\ UNCHANGED second

\* ------------------------------------------------------- kpi_dashboard.py
\* The stages profile files carry.
Stages == {"Uploaded", "Screening", "Interview", "Offer", "Hired", "Rejected"}

\* What a file of data/parsed can hold for the dashboard: text that is
\* not JSON, or a profile with or without a 'stage'.
FileContents ==
    {[readable |-> FALSE, stage |-> Absent]}
        \cup {[readable |-> TRUE, stage |-> s] : s \in {Absent} \cup {Some(x) : x \in Stages}}

\* profile.get('stage', 'Uploaded')
StageOf(file) == IF IsSome(file.stage) THEN Val(file.stage) ELSE "Uploaded"

\* The number of files whose content is in S.
RECURSIVE FilesIn(_)
FilesIn(S) ==
    IF S = {} THEN 0
    ELSE LET c == CHOOSE x \in S : TRUE
         IN parsedFiles[c] + FilesIn(S \ {c})

\* The profiles the scan loads: json.load succeeds on them.
Loaded == {c \in FileContents : c.readable}

ReviewedStagesWithoutInterview == {"Reviewed", "Screening", "Offer", "Hired"}

ReviewedStages == {"Reviewed", "Screening", "Interview", "Offer", "Hired"}
InterviewedStages == {"Interview", "Offer", "Hired"}
OfferedStages == {"Offer", "Hired"}
HiredStages == {"Hired"}

\* A Python dict of counters: a defaultdict(int), or the plain dict
\* json.load gives back.
DefaultDict(counts) == [kind |-> "defaultdict", counts |-> counts]
Dict(counts) == [kind |-> "dict", counts |-> counts]

\* _init_default_metrics (the counters and the funnel)
DefaultMetrics ==
    [candidates_by_stage |-> DefaultDict(<<>>),
     conversions |-> [uploaded |-> 0, reviewed |-> 0, interviewed |-> 0,
                      offered |-> 0, hired |-> 0],
     rejections_by_reason |-> DefaultDict(<<>>)]

\* The metrics as json.dump writes them and json.load reads them back:
\* every mapping a plain dict.
AsJson(m) ==
    [m EXCEPT !.candidates_by_stage = Dict(@.counts),
              !.rejections_by_reason = Dict(@.counts)]

\* load_metrics, on construction of the dashboard
LoadMetrics ==
    /\ metrics' = IF IsSome(metricsFile) THEN Val(metricsFile) ELSE DefaultMetrics
    /\ kpiLast' = [op |-> "load_metrics", reason |-> "", err |-> "none"]
    /\ UNCHANGED <<parsedFiles, metricsFile>>

\* calculate_metrics_from_profiles: the counters rebuilt from a scan of
\* the profile files, then saved.
CalculateMetricsFromProfiles ==
    LET present == {StageOf(c) : c \in {x \in Loaded : parsedFiles[x] > 0}}
        count(stages) == FilesIn({c \in Loaded : StageOf(c) \in stages})
        rebuilt ==
            [metrics EXCEPT
                !.candidates_by_stage =
                    DefaultDict([stage \in present |-> count({stage})]),
                !.conversions = [uploaded |-> FilesIn(Loaded),
                                 reviewed |-> count(ReviewedStages),
                                 interviewed |-> count(InterviewedStages),
                                 offered |-> count(OfferedStages),
                                 hired |-> count(HiredStages)]]
    IN /\ metrics' = rebuilt
       /\ metricsFile' = Some(AsJson(rebuilt))
       /\ kpiLast' = [op |-> "calculate_metrics_from_profiles", reason |-> "", err |-> "none"]
       /\ UNCHANGED parsedFiles

\* get_conversion_funnel_data()['values']
GetConversionFunnelData ==
    <<metrics.conversions.uploaded, metrics.conversions.reviewed,
      metrics.conversions.interviewed, metrics.conversions.offered,
      metrics.conversions.hired>>

Reasons == {"skills", "salary"}

\* The rejections counted so far.
RECURSIVE Recorded(_)
Recorded(counts) ==
    IF DOMAIN counts = {} THEN 0
    ELSE LET r == CHOOSE x \in DOMAIN counts : TRUE
         IN counts[r] + Recorded([x \in DOMAIN counts \ {r} |-> counts[x]])

\* record_rejection: d[reason] += 1 on the counters of rejections, then
\* save; on a plain dict a reason that is not a key raises KeyError.
RecordRejection(reason) ==
    LET d == metrics.rejections_by_reason
    IN /\ Recorded(d.counts) < MaxRejections
       /\ IF d.kind = "dict" /\ reason \notin DOMAIN d.counts
          THEN /\ kpiLast' = [op |-> "record_rejection", reason |-> reason,
                              err |-> "KeyError"]
               /\ UNCHANGED <<metrics, metricsFile>>
          ELSE LET counted ==
                       [metrics EXCEPT !.rejections_by_reason.counts =
                           [r \in DOMAIN d.counts \cup {reason} |->
                               IF r = reason
                               THEN (IF r \in DOMAIN d.counts THEN d.counts[r] ELSE 0) + 1
                               ELSE d.counts[r]]]
               IN /\ metrics' = counted
                  /\ metricsFile' = Some(AsJson(counted))
                  /\ kpiLast' = [op |-> "record_rejection", reason |-> reason,
                                 err |-> "none"]
       /\ UNCHANGED parsedFiles

\* A file appears in data/parsed.
WriteProfileFile(content) ==
    /\ FilesIn(FileContents) < MaxFiles
    /\ parsedFiles' = [parsedFiles EXCEPT ![content] = @ + 1]
    /\ kpiLast' = [op |-> "none", reason |-> "", err |-> "none"]
    /\ UNCHANGED <<metrics, metricsFile>>

\* The data directory a process starts on: empty, or holding a corpus
\* with its vectors, its vectorizer and a keyword database.
Init ==
    /\ \E seeded \in BOOLEAN :
         IF seeded
         THEN /\ profiles = SeededProfiles
              /\ npy = [id \in 1..Len(SeededResumes) |-> Embedding(SeededResumes[id], 1)]
              /\ vectorizerPkl = 1
              /\ fits = <<MaxFeatures>>
              /\ db = Some([columns |-> ServedColumns,
                            rows |-> [i \in 1..Len(SeededResumes) |->
                                        FtsRow(SeededProfiles[i], ServedColumns)]])
              /\ clock = Len(SeededResumes) + 1
         ELSE /\ profiles = <<>>
              /\ npy = <<>>
              /\ vectorizerPkl = 0
              /\ fits = <<>>
              /\ db = Absent
              /\ clock = 1
    /\ faissFile = Absent
    /\ metaFile = Absent
    /\ faissBuild = [pc |-> "idle", candidate_ids |-> <<>>, run |-> 0, repeat |-> FALSE]
    /\ ftsBuild = [pc |-> "idle", run |-> 0, repeat |-> FALSE]
    /\ stale = 0
    /\ retriever = Absent
    /\ last = [op |-> "none"]
    /\ vacancies = <<>>
    /\ vacancyFiles = <<>>
    /\ second = 1
    /\ parsedFiles = [c \in FileContents |-> 0]
    /\ metrics = DefaultMetrics
    /\ metricsFile = Absent
    /\ kpiLast = [op |-> "none", reason |-> "", err |-> "none"]

\* A call of search is followed to its return before the next step of
\* a script or a reload is taken.
Next ==
    \/ /\ last.op = "none"
       /\ \/ \E features \in FeatureCounts : ScanAndParse(features)
          \/ \E id \in DOMAIN profiles : RemoveProfile(id)
          \/ BuildFaiss
          \/ BuildTextIndex
          \/ NewRetriever
       /\ UNCHANGED <<vacancyVars, kpiVars>>
    \/ (\E q \in Queries, k \in 1..MaxK, f \in FilterMaps : Search(q, k, f))
          /\ UNCHANGED <<vacancyVars, kpiVars>>
    \/ TakeResult /\ UNCHANGED <<vacancyVars, kpiVars>>

Spec == Init /\ [][Next]_vars

\* The calls made on one VacancyManager.
VacancyNext ==
    \/ (\E role_name \in Roles, now \in 1..MaxSecond :
            CreateVacancyFromRole(role_name, now))
          /\ UNCHANGED <<retrieval, kpiVars>>
    \/ (\E vacancy_id \in DOMAIN vacancies \cup {UnknownVacancy}, candidate_id \in Candidates :
            AssignCandidateToVacancy(vacancy_id, candidate_id))
          /\ UNCHANGED <<retrieval, kpiVars>>
    \/ (\E vacancy_id \in DOMAIN vacancies \cup {UnknownVacancy}, status \in Statuses :
            UpdateVacancyStatus(vacancy_id, status))
          /\ UNCHANGED <<retrieval, kpiVars>>

VacancySpec == Init /\ [][VacancyNext]_vars

\* The calls made on the dashboard, by processes that come and go, while
\* profile files are written.
KpiNext ==
    \/ LoadMetrics /\ UNCHANGED <<retrieval, vacancyVars>>
    \/ CalculateMetricsFromProfiles /\ UNCHANGED <<retrieval, vacancyVars>>
    \/ (\E reason \in Reasons : RecordRejection(reason))
          /\ UNCHANGED <<retrieval, vacancyVars>>
    \/ (\E content \in FileContents : WriteProfileFile(content))
          /\ UNCHANGED <<retrieval, vacancyVars>>

KpiSpec == Init /\ [][KpiNext]_vars

\* ================================================================ claims
Called == last.op = "search"
Returned == Called /\ last.out.err = "none"

Ids(list) == [i \in 1..Len(list) |-> Cid(list[i])]
IdSet(list) == {Cid(list[i]) : i \in 1..Len(list)}
Position(list, cid) == CHOOSE i \in 1..Len(list) : Cid(list[i]) = cid

\* How the last call found a candidate.
FoundByVector(cid) == cid \in IdSet(last.out.semantic)
FoundByKeyword(cid) == cid \in IdSet(last.out.keyword)
FoundByBoth(cid) == FoundByVector(cid) /\ FoundByKeyword(cid)
KeywordOnly(cid) == FoundByKeyword(cid) /\ ~FoundByVector(cid)
VectorOnly(cid) == FoundByVector(cid) /\ ~FoundByKeyword(cid)
VectorScore(cid) == last.out.semantic[Position(last.out.semantic, cid)].search_score

\* C1: search with the empty query text returns the empty list, whatever
\* the filters and whatever the indexes hold, and queries neither index.
C1_EmptyQueryReturnsEmpty ==
    (Called /\ last.query = "") =>
        /\ last.out.err = "none"
        /\ last.out.result = <<>>
        /\ last.out.touched = {}

\* The empty query was put to a retriever that has a vector index, a
\* vectorizer and a keyword database, with filters. 
C1_Witness ==
    /\ Called /\ last.query = "" /\ FiltersGiven(last.filters)
    /\ IsSome(Val(retriever).faiss_index) /\ Val(retriever).vectorizer # 0
    /\ IsSome(db) /\ last.files # {}

\* C2: the list search returns has at most k profiles, each with a
\* numeric search_score, in non-increasing order of score, and profiles
\* of equal score keep the order they had in the fused map.
C2_RankedCappedStable ==
    Returned =>
        LET res == last.out.result
        IN /\ Len(res) <= last.k
           /\ \A i \in 1..Len(res) : res[i].search_score \in Int
           /\ \A i, j \in 1..Len(res) :
                i < j =>
                  /\ res[i].search_score >= res[j].search_score
                  /\ res[i].search_score = res[j].search_score =>
                       Position(last.out.combined, Cid(res[i]))
                         < Position(last.out.combined, Cid(res[j]))

\* A returned list cut to k whose first two profiles tie.
C2_Witness ==
    /\ Returned
    /\ Len(last.out.ranked) > last.k
    /\ Len(last.out.result) >= 2
    /\ last.out.result[1].search_score = last.out.result[2].search_score

\* C3 as stated: a candidate found by both searches ends with its vector
\* score plus the keyword bonus.
C3_BonusAddedToVectorScore ==
    Called =>
        \A i \in 1..Len(last.out.ranked) :
            LET e == last.out.ranked[i]
            IN FoundByBoth(Cid(e)) => e.search_score = VectorScore(Cid(e)) + KeywordBonus

\* C3 as amended: a candidate found by both searches ends with the larger
\* of its vector score and the keyword base score plus the bonus (0.7).
C3_BothScoreIsMax ==
    Called =>
        \A i \in 1..Len(last.out.ranked) :
            LET e == last.out.ranked[i]
                v == VectorScore(Cid(e))
            IN FoundByBoth(Cid(e)) =>
                 e.search_score = IF v >= KeywordBase + KeywordBonus THEN v
                                  ELSE KeywordBase + KeywordBonus

\* A candidate found by both searches whose vector score is below 0.7.
C3_Witness ==
    /\ Called
    /\ \E i \in 1..Len(last.out.ranked) :
          /\ FoundByBoth(Cid(last.out.ranked[i]))
          /\ VectorScore(Cid(last.out.ranked[i])) < KeywordBase + KeywordBonus

\* C4 as stated: in the returned ranking every candidate found by both
\* searches stands above every candidate found by only one of them.
C4_BothAboveEverySingleSignal ==
    Returned =>
        \A i, j \in 1..Len(last.out.result) :
            (FoundByBoth(Cid(last.out.result[j])) /\ ~FoundByBoth(Cid(last.out.result[i])))
                => j < i

\* C4 as amended: a candidate found by both searches stands above every
\* candidate found by the keyword search alone; a candidate standing
\* above it was found by the vector search, with a score at least as
\* large as its fused score, which is at least 0.7.
C4_BothAboveKeywordOnly ==
    Returned =>
        \A i, j \in 1..Len(last.out.result) :
            LET single == last.out.result[i]
                both == last.out.result[j]
            IN (FoundByBoth(Cid(both)) /\ ~FoundByBoth(Cid(single)) /\ i < j) =>
                  /\ VectorOnly(Cid(single))
                  /\ single.search_score >= both.search_score
                  /\ both.search_score >= KeywordBase + KeywordBonus

\* A returned ranking that holds a candidate found by both searches and
\* one found by the keyword search alone.
C4_Witness ==
    /\ Returned
    /\ \E i, j \in 1..Len(last.out.result) :
          /\ FoundByBoth(Cid(last.out.result[j]))
          /\ KeywordOnly(Cid(last.out.result[i]))

\* C5: a candidate found by the keyword search alone gets the one base
\* score, whatever its rank among the keyword hits, the query and the
\* candidate.
C5_KeywordOnlyScoreFixed ==
    Called =>
        /\ \A i \in 1..Len(last.out.keyword) : last.out.keyword[i].search_score = KeywordBase
        /\ \A i \in 1..Len(last.out.ranked) :
              KeywordOnly(Cid(last.out.ranked[i])) =>
                  last.out.ranked[i].search_score = KeywordBase

\* Two candidates found by the keyword search alone, at keyword ranks 1 and 2.
C5_Witness ==
    /\ Called
    /\ Len(last.out.keyword) >= 2
    /\ KeywordOnly(Cid(last.out.keyword[1]))
    /\ KeywordOnly(Cid(last.out.keyword[2]))
    /\ Cid(last.out.keyword[1]) # Cid(last.out.keyword[2])

\* What the filter predicates ask of a profile, read off the record.
ExperienceOf(p) == IF "experience_years" \in DOMAIN p THEN p.experience_years.v ELSE 0

LocationText(p) ==
    IF "location" \in DOMAIN p /\ p.location.t = "str" THEN p.location.v ELSE <<>>

Satisfies(p, f) ==
    /\ "role_category" \in DOMAIN f =>
          "role_category" \in DOMAIN p /\ p.role_category = f.role_category
    /\ "min_experience" \in DOMAIN f =>
          f.min_experience.t = "int" /\ f.min_experience.v <= ExperienceOf(p)
    /\ "max_experience" \in DOMAIN f =>
          f.max_experience.t = "int" /\ ExperienceOf(p) <= f.max_experience.v
    /\ "location" \in DOMAIN f =>
          f.location.t = "str" /\ IsSubstring(Lower(f.location.v), Lower(LocationText(p)))
    /\ "work_authorization" \in DOMAIN f =>
          "work_authorization" \in DOMAIN p /\ p.work_authorization = f.work_authorization

Filtered == Returned /\ FiltersGiven(last.filters)

\* C6: every profile search returns under a filter mapping satisfies all
\* the predicates supplied (role equal, experience within the inclusive
\* bounds with a missing experience_years read as 0, location filter a
\* case-insensitive substring of the location, work authorization
\* equal); when no ranked profile qualifies the result is empty.
C6_ReturnedProfilesSatisfyFilters ==
    Filtered =>
        /\ \A i \in 1..Len(last.out.result) :
              Satisfies(last.out.result[i].profile, last.filters)
        /\ (\A i \in 1..Len(last.out.ranked) :
               ~Satisfies(last.out.ranked[i].profile, last.filters))
              => last.out.result = <<>>

\* A filtered search that dropped a ranked profile and returned one
\* whose record has no experience_years.
C6_Witness ==
    /\ Filtered
    /\ Len(last.out.filtered) < Len(last.out.ranked)
    /\ \E i \in 1..Len(last.out.result) :
          "experience_years" \notin DOMAIN last.out.result[i].profile

\* The profile field a filter key is compared with.
FieldOf(key) == IF key \in {"min_experience", "max_experience"} THEN "experience_years" ELSE key

HasField(p, key) ==
    /\ key \in KnownFilterKeys
    /\ FieldOf(key) \in DOMAIN p
    /\ p[FieldOf(key)] # PyNone

\* The filter mapping cut down to the keys the profile has a field for.
Corresponding(p, f) == [key \in {x \in DOMAIN f : HasField(p, x)} |-> f[key]]

Kept(entry) == \E i \in 1..Len(last.out.filtered) : last.out.filtered[i] = entry

Malformed(f) ==
    /\ FiltersGiven(f)
    /\ \/ "min_experience" \in DOMAIN f /\ f.min_experience.t # "int"
       \/ "max_experience" \in DOMAIN f /\ f.max_experience.t # "int"

\* C8 as stated: a search with a non-empty query and a malformed filter
\* value raises before the vectorizer, either index or any profile file
\* has been read.
C8_MalformedFilterRejectedUpFront ==
    (Called /\ last.query # "" /\ Malformed(last.filters)) =>
        /\ last.out.err # "none"
        /\ last.out.touched = {}

Live(hits) == SelectSeq(hits, LAMBDA id : id \in last.files)

\* C9: a hit of either index whose profile file is gone is left out and
\* nothing else is: each search returns the profiles of exactly its
\* other hits, in hit order, every returned profile has a file, and a
\* missing file is never the cause of an error.
C9_MissingProfileDropped ==
    Called =>
        /\ Ids(last.out.semantic) = Live(last.out.semanticHits)
        /\ Ids(last.out.keyword) = Live(last.out.keywordHits)
        /\ Returned =>
              /\ IdSet(last.out.ranked)
                    = IdSet(last.out.semantic) \cup IdSet(last.out.keyword)
              /\ IdSet(last.out.result) \subseteq last.files
              /\ ~FiltersGiven(last.filters)
                    => last.out.result = FirstK(last.out.ranked, last.k)
        /\ last.out.err # "none" =>
              \/ "faiss.index" \in last.out.touched /\ last.out.semanticHits = <<>>
                 /\ last.out.err = "AssertionError"
              \/ "meta.sqlite" \in last.out.touched /\ last.out.keywordHits = <<>>
                 /\ last.out.err \notin {"TypeError", "AttributeError", "AssertionError"}
              \/ Malformed(last.filters) /\ last.out.err = "TypeError"

\* Both indexes return a candidate whose profile file is gone, followed
\* by other hits, and the search returns those.
C9_Witness ==
    /\ Returned
    /\ \E i \in 1..Len(last.out.semanticHits) :
          /\ last.out.semanticHits[i] \notin last.files
          /\ \E j \in (i + 1)..Len(last.out.semanticHits) :
                last.out.semanticHits[j] \in IdSet(last.out.result)
    /\ \E i \in 1..Len(last.out.keywordHits) : last.out.keywordHits[i] \notin last.files
    /\ last.out.keyword # <<>>

\* C10 as stated: with the vector index or vectorizer absent, or the
\* keyword database absent, a search with a plain-word query and no
\* filters does not raise; it returns the first k keyword results when
\* the vector signal is absent, vector results only when the keyword
\* database is absent, and nothing when both are.
C10_AbsentArtifactDegradesSignal ==
    (Called /\ last.query # "" /\ WellFormedMatch(last.query) /\ last.filters = PyNone) =>
        LET noVector == "faiss.index" \notin last.out.touched
            noKeyword == "meta.sqlite" \notin last.out.touched
        IN (noVector \/ noKeyword) =>
              /\ last.out.err = "none"
              /\ noVector => last.out.result = FirstK(last.out.keyword, last.k)
              /\ noKeyword => last.out.result = FirstK(last.out.semantic, last.k)
              /\ (noVector /\ noKeyword) => last.out.result = <<>>

\* The keyword query of the last call went to a database file that
\* holds no profiles_fts table.
QueriedWithoutTable ==
    /\ Called /\ last.query # ""
    /\ "meta.sqlite" \in last.out.touched
    /\ IsSome(db) /\ ~HasTable(Val(db))

\* C11 as stated: a keyword query against a database without the
\* profiles_fts table gives no keyword hits and no error, and search
\* goes on with what the vector search found.
C11_MissingTableYieldsNoHits ==
    (QueriedWithoutTable /\ last.filters = PyNone) =>
        /\ last.out.err = "none"
        /\ last.out.keyword = <<>>
        /\ last.out.result = FirstK(last.out.semantic, last.k)

\* A query text with a stray quote character, and the text without it.
HasStrayQuote(q) == q = "\"python"
Unquoted(q) == IF HasStrayQuote(q) THEN "python" ELSE q

\* C12 as stated: a query with an unbalanced quote reaches the keyword
\* engine with the quote stripped: search returns a list, the keyword
\* results being those of the text without the quote.
C12_StrayQuoteSanitized ==
    (Called /\ HasStrayQuote(last.query) /\ last.filters = PyNone
       /\ IsSome(db) /\ SelectedColumns \subseteq Val(db).columns
       /\ "meta.sqlite" \in last.out.touched) =>
        /\ last.out.err = "none"
        /\ last.out.keyword = KeywordSearch(Unquoted(last.query), last.k).results

\* faiss.index and meta.json as they stand are one build: as many rows
\* as ids, row i the vector stored for the candidate named at i.
IndexAligned ==
    /\ IsSome(faissFile) /\ IsSome(metaFile)
    /\ Len(Val(faissFile)) = Len(Val(metaFile))
    /\ \A i \in 1..Len(Val(metaFile)) :
          /\ Val(metaFile)[i] \in DOMAIN npy
          /\ Val(faissFile)[i] = npy[Val(metaFile)[i]]

\* C13: once a vector index build has completed, index and candidate_ids
\* have one length and row i is the vector of candidate_ids[i] (and stay
\* so when a later build fails); every score semantic_search returns is
\* the cosine of the query with the vector of the candidate it is
\* returned with.
C13_IndexRowsMatchCandidateIds ==
    /\ faissBuild.pc = "done" => IndexAligned
    /\ (faissBuild.pc = "ValueError" /\ IsSome(metaFile)) => IndexAligned
    /\ Called =>
          \A i \in 1..Len(last.out.semantic) :
              LET e == last.out.semantic[i]
              IN /\ Cid(e) \in DOMAIN npy
                 /\ e.search_score = Cosine(npy[Cid(e)], last.query)

\* A second build has completed over the vectors of two ingestion runs,
\* and a retriever that loaded it returned vector results.
C13_Witness ==
    /\ faissBuild.pc = "done"
    /\ Len(Val(metaFile)) > Len(ResumeDir)
    /\ Called
    /\ Val(retriever).faiss_index = faissFile
    /\ Len(last.out.semantic) >= 2

\* Both index builds ran to their end after the last ingestion run, and
\* no profile file has been deleted.
RebuiltAfterIngestion ==
    /\ vectorizerPkl > 0
    /\ faissBuild.pc = "done" /\ faissBuild.run = vectorizerPkl
    /\ ftsBuild.pc = "done" /\ ftsBuild.run = vectorizerPkl
    /\ stale = 0

Range(seq) == {seq[i] : i \in 1..Len(seq)}
KeywordIds == [i \in 1..Len(Val(db).rows) |-> Val(db).rows[i].candidate_id]

\* C14: after ingestion and a rebuild of both indexes, the candidate_ids
\* of the vector index, those of the keyword table and those of the
\* profile files are one set, with one vector row and one keyword row
\* for each profile file.
C14_IndexesCoverProfileStore ==
    RebuiltAfterIngestion =>
        /\ Range(Val(metaFile)) = DOMAIN profiles
        /\ Range(KeywordIds) = DOMAIN profiles
        /\ Len(Val(metaFile)) = Cardinality(DOMAIN profiles)
        /\ Len(Val(faissFile)) = Cardinality(DOMAIN profiles)
        /\ Len(KeywordIds) = Cardinality(DOMAIN profiles)

\* Both indexes rebuilt after the second ingestion run.
C14_Witness ==
    /\ RebuiltAfterIngestion
    /\ vectorizerPkl = 2
    /\ Cardinality(DOMAIN profiles) = 2 * Len(ResumeDir)

\* C15 as stated: at every point, a build in progress included, what a
\* reader finds on disk is one complete build: a faiss.index and a
\* meta.json of one build and, once a keyword build has completed, a
\* keyword table that exists and holds the rows of the profiles.
C15_ReaderSeesCompleteBuild ==
    /\ (IsSome(faissFile) /\ IsSome(metaFile)) =>
          /\ Len(Val(faissFile)) = Len(Val(metaFile))
          /\ \A i \in 1..Len(Val(metaFile)) : Val(faissFile)[i] = npy[Val(metaFile)[i]]
    /\ (IsSome(db) /\ ftsBuild.run > 0) =>
          /\ HasTable(Val(db))
          /\ ftsBuild.pc = "created" => (Val(db).rows # <<>> \/ DOMAIN profiles = {})

\* A run of build_faiss.py starts in this step, over vectors that do not
\* all have one length.
BuildOfferedMixedLengths ==
    /\ faissBuild.pc # "index written"
    /\ faissBuild' # faissBuild
    /\ ~(\A i, j \in DOMAIN npy : fits[npy[i].fit] = fits[npy[j].fit])

\* C16: a vector index build offered vectors of different lengths fails
\* with faiss.index and meta.json left as they were, and no faiss.index
\* ever holds rows of different lengths.
C16_MixedLengthsBuildWritesNothing ==
    /\ [](IsSome(faissFile) =>
            \A i, j \in 1..Len(Val(faissFile)) :
                fits[Val(faissFile)[i].fit] = fits[Val(faissFile)[j].fit])
    /\ [][BuildOfferedMixedLengths =>
            /\ faissBuild'.pc = "ValueError"
            /\ UNCHANGED <<faissFile, metaFile>>]_vars

\* A build has failed on the vectors of two fits of different feature
\* counts, and the index of the build before it is still in place.
C16_Witness ==
    /\ faissBuild.pc = "ValueError"
    /\ Len(fits) = 2 /\ fits[1] # fits[2]
    /\ IsSome(faissFile) /\ IsSome(metaFile)
    /\ Len(Val(faissFile)) = Len(ResumeDir)
    /\ Len(Val(metaFile)) = Len(ResumeDir)

\* C17 as stated: the vectors of one built vector index all come from
\* one fit of the vectorizer.
C17_IndexVectorsOfOneFit ==
    IsSome(faissFile) =>
        \A i, j \in 1..Len(Val(faissFile)) : Val(faissFile)[i].fit = Val(faissFile)[j].fit

\* C18 as stated: a retriever that has loaded a vector index (here one
\* whose vectors all come from one fit) and a vectorizer has loaded the
\* vectorizer of that fit.
C18_LoadedVectorizerMatchesIndex ==
    (IsSome(retriever) /\ IsSome(Val(retriever).faiss_index)
       /\ Val(retriever).vectorizer # 0) =>
        LET index == Val(Val(retriever).faiss_index)
        IN (\A i, j \in 1..Len(index) : index[i].fit = index[j].fit) =>
              \A i \in 1..Len(index) : index[i].fit = Val(retriever).vectorizer

\* What the serving retriever answers to a plain-word query, as the
\* disk stands.
Answer(q, k) == SearchOutcome(Val(retriever), q, k, PyNone)

\* C19 as stated: while the retriever is not reloaded, a step of
\* ingestion or of an index build on disk changes no answer of search.
C19_RebuildUnseenWithoutReload ==
    [][(IsSome(retriever) /\ retriever' = retriever /\ stale' = stale
          /\ last.op = "none" /\ last'.op = "none") =>
         \A q \in {"python", "python aws"}, k \in 1..MaxK : Answer(q, k)' = Answer(q, k)]_vars

Ascending(ids) == \A i, j \in 1..Len(ids) : i < j => ids[i] < ids[j]

KeywordFirstRanking == SortByScore(<<>>, Fuse(last.out.keyword, last.out.semantic))

\* C22 as stated: fusing the keyword results first and the vector
\* results second ranks the same candidates in the same order as the
\* fusion search performs.
C22_FusionOrderIndependent ==
    Returned => Ids(KeywordFirstRanking) = Ids(last.out.ranked)

\* C23: filtering an already filtered list with the same mapping gives
\* that list back, same profiles in the same order.
C23_FilteringIdempotent ==
    Filtered =>
        FilterResults(<<>>, last.out.filtered, last.filters)
            = [results |-> last.out.filtered, err |-> "none"]

\* A filter that kept two ranked profiles or more and dropped another.
C23_Witness ==
    /\ Filtered
    /\ Len(last.out.filtered) >= 2
    /\ Len(last.out.filtered) < Len(last.out.ranked)
    /\ DOMAIN last.filters \subseteq KnownFilterKeys

\* The fields the keyword index is to make searchable that the model
\* keeps tokens for.
ListedFields == {"skills", "location", "work_authorization"}

\* C24 as stated: the table build_text_index has built holds a column
\* for each listed field, and every token of a profile's location or
\* work_authorization is a token of the profile's row, so that a query
\* for it matches the profile.
C24_ListedFieldsSearchable ==
    (ftsBuild.pc = "done" /\ stale = 0) =>
        /\ ListedFields \subseteq Val(db).columns
        /\ \A i \in 1..Len(KeywordIds) :
              \A field \in ListedFields :
                  ColumnTokens(profiles[KeywordIds[i]], field) \subseteq Val(db).rows[i].tokens

\* ================================================= ingestion under a wall clock
\* datetime.now() reads the wall clock: its readings within a run never
\* decrease but may repeat (two reads inside one tick), and between runs
\* the clock may have been set back.  Readings(n) are the readings n
\* successive parses can draw.
Readings(n) ==
    {r \in [1..n -> 1..MaxClock] : \A i, j \in 1..n : i <= j => r[i] <= r[j]}

\* The resume whose files a run leaves under an id: the last one
\* written there.
LastWritten(readings, id) ==
    CHOOSE i \in 1..Len(readings) :
        /\ readings[i] = id
        /\ \A j \in 1..Len(readings) : readings[j] = id => j <= i

\* scan_and_parse with the clock's readings as its input: readings[i] is
\* the timestamp parse_resume draws for the i-th resume; the profiles
\* and vectors are written in the order parsed.
ScanAndParseAt(features, readings) ==
    /\ vectorizerPkl < MaxRuns
    /\ LET ids == {readings[i] : i \in 1..Len(ResumeDir)}
           fit == vectorizerPkl + 1
       IN /\ vectorizerPkl' = fit
          /\ fits' = Append(fits, features)
          /\ profiles' = [id \in DOMAIN profiles \cup ids |->
                            IF id \in ids
                            THEN ParseResume(ResumeDir[LastWritten(readings, id)], id)
                            ELSE profiles[id]]
          /\ npy' = [id \in DOMAIN npy \cup ids |->
                       IF id \in ids
                       THEN Embedding(ResumeDir[LastWritten(readings, id)], fit)
                       ELSE npy[id]]
    /\ clock' = readings[Len(ResumeDir)]
    /\ UNCHANGED <<faissFile, metaFile, db, faissBuild, ftsBuild, stale, retriever, last>>

IngestNext ==
    /\ \E features \in FeatureCounts, readings \in Readings(Len(ResumeDir)) :
          ScanAndParseAt(features, readings)
    /\ UNCHANGED <<vacancyVars, kpiVars>>

IngestSpec == Init /\ [][IngestNext]_vars

\* C25 as stated: an ingestion run gives every resume it parses an id
\* of its own, different from the ids already in the store, so the run
\* adds one profile file per resume and leaves every earlier profile
\* file as it was.
C25_CandidateIdsUnique ==
    [][/\ Cardinality(DOMAIN profiles') = Cardinality(DOMAIN profiles) + Len(ResumeDir)
       /\ \A id \in DOMAIN profiles : profiles'[id] = profiles[id]]_vars

\* C26 as stated: once both index builds have completed over a
\* non-empty Profile Store, a search with a non-empty plain-word query
\* returns a list without raising, every column keyword_search selects
\* being a column of the table build_text_index creates.
C26_SearchAfterBuildsReturns ==
    /\ SelectedColumns \subseteq BuiltColumns
    /\ (RebuiltAfterIngestion /\ DOMAIN profiles # {} /\ Called
        /\ WellFormedMatch(last.query)) => last.out.err = "none"

\* ----------------------------------------------------------- vacancies
\* The stored vacancies of a role that are open.
OpenVacancies(role_name) ==
    {id \in DOMAIN vacancies :
        vacancies[id].role_name = role_name /\ vacancies[id].status = "Open"}

\* C27 as stated: whatever create_vacancy_from_role and
\* update_vacancy_status calls have been made, no role has more than one
\* vacancy with status 'Open'.
C27_OneOpenVacancyPerRole ==
    \A role_name \in Roles : Cardinality(OpenVacancies(role_name)) <= 1

\* C28 as stated: a call of create_vacancy_from_role leaves every
\* vacancy already stored as it was, in memory and on disk: the id of a
\* vacancy it creates is none of theirs.
C28_CreationKeepsStoredVacancies ==
    [][(\E role_name \in Roles, now \in 1..MaxSecond :
            CreateVacancyFromRole(role_name, now)) =>
        \A id \in DOMAIN vacancies :
            /\ vacancies'[id] = vacancies[id]
            /\ vacancyFiles'[id] = vacancyFiles[id]]_vars

\* ----------------------------------------------------------- dashboard
Calculated == kpiLast.op = "calculate_metrics_from_profiles"

\* C29: after calculate_metrics_from_profiles the funnel never rises
\* from one stage to the next, uploaded is the number of profile files
\* that could be read, and get_conversion_funnel_data gives these five
\* numbers in funnel order.
C29_FunnelMonotone ==
    Calculated =>
        LET c == metrics.conversions
        IN /\ c.uploaded >= c.reviewed
           /\ c.reviewed >= c.interviewed
           /\ c.interviewed >= c.offered
           /\ c.offered >= c.hired
           /\ c.hired >= 0
           /\ c.uploaded = FilesIn({f \in FileContents : f.readable})
           /\ GetConversionFunnelData
                 = <<c.uploaded, c.reviewed, c.interviewed, c.offered, c.hired>>

\* A scan of a corpus with a file that is not JSON, a candidate in
\* interview and a hired one.
C29_Witness ==
    /\ Calculated
    /\ \E f \in FileContents : ~f.readable /\ parsedFiles[f] > 0
    /\ metrics.conversions.interviewed > metrics.conversions.hired
    /\ metrics.conversions.hired > 0

\* C30 as stated: every call of record_rejection ends without an error
\* and leaves the count of its reason one higher than it was (a reason
\* never recorded counting as 0), whether the metrics were initialised
\* by this dashboard or loaded from the metrics file.
C30_RejectionCounted ==
    [][\A reason \in Reasons :
          RecordRejection(reason) =>
              LET before == metrics.rejections_by_reason.counts
                  after == metrics'.rejections_by_reason.counts
              IN /\ kpiLast'.err = "none"
                 /\ reason \in DOMAIN after
                 /\ after[reason] = (IF reason \in DOMAIN before THEN before[reason] ELSE 0) + 1]_vars

====
